---- MODULE Spec2Model ----
(***************************************************************************)
(* A model of custom_components/esphome_update_manager/update_queue.py:    *)
(* the UpdateQueue object, its public entry points (start, cancel, clear,  *)
(* as called by the websocket handlers of __init__.py) and the background  *)
(* task running UpdateQueue._run.  The task is a coroutine: it runs        *)
(* atomically from one await to the next, so the model has one action per  *)
(* await point of the task, and `pc` names the await the task is           *)
(* suspended at.  Task.cancel() makes the task's next step raise           *)
(* CancelledError at that await (action Interrupt).                        *)
(***************************************************************************)
EXTENDS Integers, Sequences, FiniteSets, TLC

\* ---------------------------------------------------------------- constants
DEFAULT_UPDATE_TIMEOUT == 600
MAX_UNAVAILABLE_DURATION == 120

STATUS_QUEUED == "queued"
STATUS_RUNNING == "running"
STATUS_SUCCESS == "success"
STATUS_FAILED == "failed"
STATUS_SKIPPED == "skipped"
STATUS_CANCELLED == "cancelled"

Statuses ==
  {STATUS_QUEUED, STATUS_RUNNING, STATUS_SUCCESS, STATUS_FAILED,
   STATUS_SKIPPED, STATUS_CANCELLED}

TerminalStatuses ==
  {STATUS_SUCCESS, STATUS_FAILED, STATUS_SKIPPED, STATUS_CANCELLED}

\* ------------------------------------------------------------------- bounds
\* longest batch handed to start()
MaxJobs == 2
\* polls of one completion waiter whose reading is unconstrained; from then
\* on the device keeps the reading it last showed
MaxPolls == 1

\* ------------------------------------------------------------------- inputs
Targets == {"update.a", "update.b"}
Slugs == {"none", "a0d7b954_vscode"}
NoSlug == "none"

\* the batches handed to start(): the two targets in turn, from either one
Other(t) == CHOOSE u \in Targets : u # t

RECURSIVE InTurn(_, _)
InTurn(t, n) == IF n = 0 THEN <<>> ELSE <<t>> \o InTurn(Other(t), n - 1)

Batches == {InTurn(t, n) : t \in Targets, n \in 0..MaxJobs}

\* what hass.states.get(entity_id) can answer: no state object, or a state
\* with its state string and its in_progress attribute; or the call raises
NoState == [state |-> "missing", in_progress |-> FALSE, fault |-> FALSE]
ProbeFault == [state |-> "missing", in_progress |-> FALSE, fault |-> TRUE]
Readings ==
  {NoState, ProbeFault}
  \cup [state : {"unavailable"}, in_progress : {FALSE}, fault : {FALSE}]
  \cup [state : {"unknown", "on", "off"},
        in_progress : BOOLEAN, fault : {FALSE}]

\* by how many seconds the event loop may wake a sleeping task late
Lateness == {0, 300}

\* what the update.install service call can answer: it returns, or raises
\* an exception with a message
InstallOk == "ok"
InstallErrors == {"Error compiling firmware", "OTA connection refused"}
InstallOutcomes == {InstallOk} \cup InstallErrors

\* "Error compiling" in error_msg
HasCompileMarker(msg) == msg \in {"Error compiling firmware"}

\* what the Supervisor answers to GET /addons/<slug>/info
AddonStates == {"started", "stopped", "none"}

\* the error texts are the source's, with its dash written "-";
\* str(err) of an exception raised by hass.states.get
FaultMessage == "state machine failure"

NoError == <<>>
NotSet == -1

\* ---------------------------------------------------------------- variables
VARIABLES
  queue,              \* self._queue: the DeviceUpdateResult objects, in order
  running,            \* self._running
  cancelled,          \* self._cancelled
  current_index,      \* self._current_index (0-based, as in the code)
  stop_addon_slug,    \* self._stop_addon_slug
  addon_was_running,  \* self._addon_was_running
  pc,                 \* self._task: "none", the await it is suspended at, "done"
  must_cancel,        \* Task.cancel() was called and the task has not run since
  now,                \* waiter: loop.time() minus the time the waiter began
  unavailable_since,  \* waiter local (same clock), NotSet for None
  saw_in_progress,    \* waiter local
  polls,              \* waiter: readings taken so far in this waiter
  events,             \* what hass.bus.async_fire published in this run
  calls,              \* the requests this run made of its collaborators
  cancel_at,          \* where the task was at the run's first cancel()
  api                 \* the answer the websocket handler sent to the last command

vars ==
  <<queue, running, cancelled, current_index, stop_addon_slug,
    addon_was_running, pc, must_cancel, now, unavailable_since,
    saw_in_progress, polls, events, calls, cancel_at, api>>

\* ------------------------------------------------------- DeviceUpdateResult
DeviceUpdateResult(entity_id) ==
  [entity_id |-> entity_id, status |-> STATUS_QUEUED, started_at |-> FALSE,
   finished_at |-> FALSE, error |-> NoError]

\* the collaborators' call log of a run that has called nothing yet
NoCalls(n) ==
  [info |-> 0, stop |-> 0, start |-> 0, reported_started |-> FALSE,
   stop_result |-> "none",
   probe |-> [i \in 1..n |-> FALSE], trigger |-> [i \in 1..n |-> 0]]

NeverCancelled == [pc |-> "never", index |-> 0]

\* UpdateQueue.results: one dict per job, in queue order
Results(q) ==
  [i \in 1..Len(q) |->
    [entity_id |-> q[i].entity_id, status |-> q[i].status,
     started_at |-> q[i].started_at, finished_at |-> q[i].finished_at,
     error |-> q[i].error]]

\* UpdateQueue.summary: counts[r.status] = counts.get(r.status, 0) + 1, so
\* only the statuses that occur are keys
RECURSIVE SummaryUpTo(_, _)
SummaryUpTo(q, n) ==
  IF n = 0 THEN [s \in {} |-> 0]
  ELSE LET counts == SummaryUpTo(q, n - 1)
           st == q[n].status
           old == IF st \in DOMAIN counts THEN counts[st] ELSE 0
       IN [s \in DOMAIN counts \cup {st} |->
             IF s = st THEN old + 1 ELSE counts[s]]

\* variant of Summary that leaves the last job of the queue out of the
\* counts; C21 must tell it from the code
SummaryMissesLast(q) ==
  SummaryUpTo(q, IF Len(q) = 0 THEN 0 ELSE Len(q) - 1)

Summary(q) == SummaryUpTo(q, Len(q))

\* hass.bus.async_fire(topic, {"results": self.results, "summary": self.summary})
Fire(s, topic) ==
  [s EXCEPT !.events =
     Append(@, [topic |-> topic, results |-> Results(s.queue),
                summary |-> Summary(s.queue)])]

\* ------------------------------------------------- the object as one record
Self ==
  [queue |-> queue, running |-> running, cancelled |-> cancelled,
   current_index |-> current_index, stop_addon_slug |-> stop_addon_slug,
   addon_was_running |-> addon_was_running, pc |-> pc,
   must_cancel |-> must_cancel, now |-> now,
   unavailable_since |-> unavailable_since,
   saw_in_progress |-> saw_in_progress, polls |-> polls, events |-> events,
   calls |-> calls, cancel_at |-> cancel_at, api |-> api]

Becomes(s) ==
  /\ queue' = s.queue
  /\ running' = s.running
  /\ cancelled' = s.cancelled
  /\ current_index' = s.current_index
  /\ stop_addon_slug' = s.stop_addon_slug
  /\ addon_was_running' = s.addon_was_running
  /\ pc' = s.pc
  /\ must_cancel' = s.must_cancel
  /\ now' = s.now
  /\ unavailable_since' = s.unavailable_since
  /\ saw_in_progress' = s.saw_in_progress
  /\ polls' = s.polls
  /\ events' = s.events
  /\ calls' = s.calls
  /\ cancel_at' = s.cancel_at
  /\ api' = s.api

\* ------------------------------------------------------------ the run's end
\* _run, lines 185-189: mark the run idle and publish the finished event;
\* the coroutine returns and the task is done
FinishRun(s) ==
  Fire([s EXCEPT !.running = FALSE, !.pc = "done"], "finished")

\* _restart_addon up to its first await; when it returns at once the rest of
\* _run's finally block follows in the same step
RestartAddon(s) ==
  IF s.stop_addon_slug = NoSlug \/ ~s.addon_was_running
  THEN FinishRun(s)
  ELSE [s EXCEPT !.pc = "post_info", !.calls.info = @ + 1]

\* _run's finally block
RunFinally(s) == RestartAddon(s)

\* variant of CancelledHandler that marks every job, finished or not
\* (the check of the status is left out); C3 must tell it from the code
CancelledHandlerMarksAll(s) ==
  [s EXCEPT !.queue =
     [i \in 1..Len(s.queue) |->
        [s.queue[i] EXCEPT !.status = STATUS_CANCELLED]]]

\* variant of CancelledHandler that forgets the jobs still Queued; C9 must
\* tell it from the code
CancelledHandlerSkipsQueued(s) ==
  [s EXCEPT !.queue =
     [i \in 1..Len(s.queue) |->
        IF s.queue[i].status = STATUS_RUNNING
        THEN [s.queue[i] EXCEPT !.status = STATUS_CANCELLED,
                                !.error = <<"Cancelled by user">>,
                                !.finished_at = TRUE]
        ELSE s.queue[i]]]

\* _run's except asyncio.CancelledError block, lines 170-177
CancelledHandler(s) ==
  [s EXCEPT !.queue =
     [i \in 1..Len(s.queue) |->
        IF s.queue[i].status = STATUS_QUEUED
        THEN [s.queue[i] EXCEPT !.status = STATUS_CANCELLED]
        ELSE IF s.queue[i].status = STATUS_RUNNING
        THEN [s.queue[i] EXCEPT !.status = STATUS_CANCELLED,
                                !.error = <<"Cancelled by user">>,
                                !.finished_at = TRUE]
        ELSE s.queue[i]]]

\* --------------------------------------------------------------- one job
\* variant of IsEntityAvailable without the test for a missing state
\* object; C11 must tell it from the code
IsEntityAvailableIgnoresMissing(r) ==
  r.state \notin {"unavailable", "unknown"}

\* _is_entity_available
IsEntityAvailable(r) ==
  IF r.state = "missing" THEN FALSE
  ELSE r.state \notin {"unavailable", "unknown"}

\* _update_single's finally: item.finished_at = item.finished_at or now()
StampFinished(s, j) == [s EXCEPT !.queue[j].finished_at = TRUE]

\* _update_single's except Exception block, then its finally
\* variant of JobFault that reports a fixed text in place of the message
\* of the fault; C22 must tell it from the code
JobFaultDropsMessage(s, j) ==
  StampFinished(
    [s EXCEPT !.queue[j].status = STATUS_FAILED,
              !.queue[j].error = <<"Update failed">>], j)

JobFault(s, j) ==
  StampFinished(
    [s EXCEPT !.queue[j].status = STATUS_FAILED,
              !.queue[j].error = <<FaultMessage>>], j)

\* variant of JobCancelled in which the generic handler catches the
\* CancelledError (as `except Exception` did before Python 3.8); C8 must
\* tell it from the code
JobCancelledAsFault(s, j) ==
  StampFinished(
    [s EXCEPT !.queue[j].status = STATUS_FAILED,
              !.queue[j].error = <<FaultMessage>>], j)

\* _update_single's except asyncio.CancelledError block, then its finally;
\* the error goes on to _run
JobCancelled(s, j) ==
  StampFinished(
    [s EXCEPT !.queue[j].status = STATUS_CANCELLED,
              !.queue[j].error = <<"Cancelled by user">>], j)

\* the waiter's locals are gone when it returns
LeaveWaiter(s) ==
  [s EXCEPT !.now = 0, !.unavailable_since = NotSet,
            !.saw_in_progress = FALSE, !.polls = 0]

RECURSIVE RunLoop(_, _, _)

\* variant of AfterJob that leaves the loop after a failed job; C10 must
\* tell it from the code
AfterJobStopsOnFailure(s, j) ==
  LET s1 == Fire(s, "progress")
  IN IF s1.queue[j].status = STATUS_FAILED
     THEN RunFinally(s1)
     ELSE IF j < Len(s1.queue) /\ ~s1.cancelled
     THEN [s1 EXCEPT !.pc = "delay"]
     ELSE RunLoop(s1, j + 1, NoState)

\* _run after _update_single returned, lines 156-168: the progress event,
\* then the inter-job delay or the next turn of the loop
AfterJob(s, j) ==
  LET s1 == Fire(s, "progress")
  IN IF j < Len(s1.queue) /\ ~s1.cancelled
     THEN [s1 EXCEPT !.pc = "delay"]
     ELSE RunLoop(s1, j + 1, NoState)

\* _update_single from its start to its first await, lines 202-218; r is
\* what hass.states.get answers in _is_entity_available
UpdateSingle(s, j, r) ==
  LET s1 == [s EXCEPT !.queue[j].status = STATUS_RUNNING,
                      !.queue[j].started_at = TRUE,
                      !.calls.probe[j] = TRUE]
  IN IF r.fault THEN AfterJob(JobFault(s1, j), j)
     ELSE IF ~IsEntityAvailable(r)
     THEN AfterJob(
            StampFinished(
              [s1 EXCEPT !.queue[j].status = STATUS_SKIPPED,
                         !.queue[j].error = <<"Device unavailable - skipped">>,
                         !.queue[j].finished_at = TRUE], j), j)
     ELSE [s1 EXCEPT !.pc = "install", !.calls.trigger[j] = @ + 1]

\* _run's for loop from job j (1-based here, i = j - 1 in the code), lines
\* 147-154, and the finally block when the loop is over
RunLoop(s, j, r) ==
  IF j > Len(s.queue) THEN RunFinally(s)
  ELSE LET s1 == [s EXCEPT !.current_index = j - 1]
       IN IF s1.cancelled
          THEN RunLoop([s1 EXCEPT !.queue[j].status = STATUS_CANCELLED],
                       j + 1, r)
          ELSE UpdateSingle(s1, j, r)

\* _update_single, lines 240-247 and 257-258, with what _wait_for_completion
\* returned
WaiterReturn(s, j, success, error_reason) ==
  LET s1 == IF s.cancelled
            THEN [s EXCEPT !.queue[j].status = STATUS_CANCELLED,
                           !.queue[j].error = <<"Cancelled by user">>]
            ELSE IF success
            THEN [s EXCEPT !.queue[j].status = STATUS_SUCCESS]
            ELSE [s EXCEPT !.queue[j].status = STATUS_FAILED,
                           !.queue[j].error = <<error_reason>>]
  IN AfterJob(StampFinished(LeaveWaiter(s1), j), j)

\* variant of InstallReturn that records a failed install without setting
\* the job's status; C2 must tell it from the code
InstallReturnKeepsRunning(s, j, outcome, r) ==
  IF outcome # InstallOk
  THEN AfterJob(
         StampFinished(
           [s EXCEPT !.queue[j].error = <<"Install failed - ", outcome>>],
           j), j)
  ELSE LET s1 == [s EXCEPT !.calls.probe[j] = TRUE]
       IN IF r.fault THEN AfterJob(JobFault(s1, j), j)
          ELSE IF r.state = "off"
          THEN AfterJob(
                 StampFinished(
                   [s1 EXCEPT !.queue[j].status = STATUS_SUCCESS], j), j)
          ELSE [s1 EXCEPT !.pc = "waiter", !.now = 5,
                          !.unavailable_since = NotSet,
                          !.saw_in_progress = FALSE, !.polls = 0]

\* variant of InstallReturn that reports a failed trigger call without the
\* message of the error; C12 must tell it from the code
InstallReturnDropsMessage(s, j, outcome, r) ==
  IF outcome # InstallOk
  THEN AfterJob(
         StampFinished(
           [s EXCEPT !.queue[j].status = STATUS_FAILED,
                     !.queue[j].error = <<"Install failed">>,
                     !.queue[j].finished_at = TRUE], j), j)
  ELSE LET s1 == [s EXCEPT !.calls.probe[j] = TRUE]
       IN IF r.fault THEN AfterJob(JobFault(s1, j), j)
          ELSE IF r.state = "off"
          THEN AfterJob(
                 StampFinished(
                   [s1 EXCEPT !.queue[j].status = STATUS_SUCCESS], j), j)
          ELSE [s1 EXCEPT !.pc = "waiter", !.now = 5,
                          !.unavailable_since = NotSet,
                          !.saw_in_progress = FALSE, !.polls = 0]

\* _update_single when the install call came back, lines 219-239, up to the
\* waiter's first await (asyncio.sleep(5)); r is the reading of line 233
InstallReturn(s, j, outcome, r) ==
  IF outcome # InstallOk
  THEN AfterJob(
         StampFinished(
           [s EXCEPT !.queue[j].status = STATUS_FAILED,
                     !.queue[j].error =
                        IF HasCompileMarker(outcome)
                        THEN <<"Compile failed - ", outcome>>
                        ELSE <<"Install failed - ", outcome>>,
                     !.queue[j].finished_at = TRUE], j), j)
  ELSE LET s1 == [s EXCEPT !.calls.probe[j] = TRUE]
       IN IF r.fault THEN AfterJob(JobFault(s1, j), j)
          ELSE IF r.state = "off"
          THEN AfterJob(
                 StampFinished(
                   [s1 EXCEPT !.queue[j].status = STATUS_SUCCESS], j), j)
          ELSE [s1 EXCEPT !.pc = "waiter", !.now = 5,
                          !.unavailable_since = NotSet,
                          !.saw_in_progress = FALSE, !.polls = 0]

\* variant of WaitForCompletion that keeps the unavailable-since marker
\* when the target answers again; C23 must tell it from the code
WaitForCompletionKeepsMarker(s, j, r) ==
  IF ~(s.now < DEFAULT_UPDATE_TIMEOUT)
  THEN WaiterReturn(s, j, FALSE,
         IF s.saw_in_progress
         THEN "Update timed out - device may still be updating"
         ELSE "Update timed out - no progress detected")
  ELSE IF s.cancelled THEN WaiterReturn(s, j, FALSE, "Cancelled by user")
  ELSE LET s1 == [s EXCEPT !.polls = @ + 1, !.calls.probe[j] = TRUE]
       IN IF r.fault THEN AfterJob(JobFault(LeaveWaiter(s1), j), j)
          ELSE IF r.state = "missing"
          THEN IF s1.unavailable_since = NotSet
               THEN [s1 EXCEPT !.unavailable_since = s1.now, !.now = @ + 10]
               ELSE IF s1.now - s1.unavailable_since > MAX_UNAVAILABLE_DURATION
               THEN WaiterReturn(s1, j, FALSE,
                      "Device disappeared and did not come back")
               ELSE [s1 EXCEPT !.now = @ + 10]
          ELSE IF r.state = "unavailable"
          THEN IF s1.unavailable_since = NotSet
               THEN [s1 EXCEPT !.unavailable_since = s1.now, !.now = @ + 10]
               ELSE IF s1.now - s1.unavailable_since > MAX_UNAVAILABLE_DURATION
               THEN WaiterReturn(s1, j, FALSE,
                      IF s1.saw_in_progress
                      THEN "Device went offline during update and did not recover"
                      ELSE "Device became unavailable")
               ELSE [s1 EXCEPT !.now = @ + 10]
          ELSE LET s2 == [s1 EXCEPT !.saw_in_progress = @ \/ r.in_progress]
               IN IF ~r.in_progress /\ r.state = "off"
                  THEN WaiterReturn(s2, j, TRUE, "")
                  ELSE IF ~r.in_progress /\ r.state = "on"
                  THEN [s2 EXCEPT !.now = @ + 10]
                  ELSE [s2 EXCEPT !.now = @ + 5]

\* variant of WaitForCompletion whose loop goes round once more when the
\* clock is exactly at the deadline; C16 must tell it from the code
WaitForCompletionPollsAtDeadline(s, j, r) ==
  IF s.now > DEFAULT_UPDATE_TIMEOUT
  THEN WaiterReturn(s, j, FALSE,
         IF s.saw_in_progress
         THEN "Update timed out - device may still be updating"
         ELSE "Update timed out - no progress detected")
  ELSE IF s.cancelled THEN WaiterReturn(s, j, FALSE, "Cancelled by user")
  ELSE LET s1 == [s EXCEPT !.polls = @ + 1, !.calls.probe[j] = TRUE]
       IN IF r.fault THEN AfterJob(JobFault(LeaveWaiter(s1), j), j)
          ELSE IF r.state = "missing"
          THEN IF s1.unavailable_since = NotSet
               THEN [s1 EXCEPT !.unavailable_since = s1.now, !.now = @ + 10]
               ELSE IF s1.now - s1.unavailable_since > MAX_UNAVAILABLE_DURATION
               THEN WaiterReturn(s1, j, FALSE,
                      "Device disappeared and did not come back")
               ELSE [s1 EXCEPT !.now = @ + 10]
          ELSE IF r.state = "unavailable"
          THEN IF s1.unavailable_since = NotSet
               THEN [s1 EXCEPT !.unavailable_since = s1.now, !.now = @ + 10]
               ELSE IF s1.now - s1.unavailable_since > MAX_UNAVAILABLE_DURATION
               THEN WaiterReturn(s1, j, FALSE,
                      IF s1.saw_in_progress
                      THEN "Device went offline during update and did not recover"
                      ELSE "Device became unavailable")
               ELSE [s1 EXCEPT !.now = @ + 10]
          ELSE LET s2 == [s1 EXCEPT !.unavailable_since = NotSet,
                                    !.saw_in_progress = @ \/ r.in_progress]
               IN IF ~r.in_progress /\ r.state = "off"
                  THEN WaiterReturn(s2, j, TRUE, "")
                  ELSE IF ~r.in_progress /\ r.state = "on"
                  THEN [s2 EXCEPT !.now = @ + 10]
                  ELSE [s2 EXCEPT !.now = @ + 5]

\* variant of WaitForCompletion that takes state "off" for success whatever
\* the in_progress attribute says; C15 must tell it from the code
WaitForCompletionTrustsOff(s, j, r) ==
  IF ~(s.now < DEFAULT_UPDATE_TIMEOUT)
  THEN WaiterReturn(s, j, FALSE,
         IF s.saw_in_progress
         THEN "Update timed out - device may still be updating"
         ELSE "Update timed out - no progress detected")
  ELSE IF s.cancelled THEN WaiterReturn(s, j, FALSE, "Cancelled by user")
  ELSE LET s1 == [s EXCEPT !.polls = @ + 1, !.calls.probe[j] = TRUE]
       IN IF r.fault THEN AfterJob(JobFault(LeaveWaiter(s1), j), j)
          ELSE IF r.state = "missing"
          THEN IF s1.unavailable_since = NotSet
               THEN [s1 EXCEPT !.unavailable_since = s1.now, !.now = @ + 10]
               ELSE IF s1.now - s1.unavailable_since > MAX_UNAVAILABLE_DURATION
               THEN WaiterReturn(s1, j, FALSE,
                      "Device disappeared and did not come back")
               ELSE [s1 EXCEPT !.now = @ + 10]
          ELSE IF r.state = "unavailable"
          THEN IF s1.unavailable_since = NotSet
               THEN [s1 EXCEPT !.unavailable_since = s1.now, !.now = @ + 10]
               ELSE IF s1.now - s1.unavailable_since > MAX_UNAVAILABLE_DURATION
               THEN WaiterReturn(s1, j, FALSE,
                      IF s1.saw_in_progress
                      THEN "Device went offline during update and did not recover"
                      ELSE "Device became unavailable")
               ELSE [s1 EXCEPT !.now = @ + 10]
          ELSE LET s2 == [s1 EXCEPT !.unavailable_since = NotSet,
                                    !.saw_in_progress = @ \/ r.in_progress]
               IN IF r.state = "off"
                  THEN WaiterReturn(s2, j, TRUE, "")
                  ELSE IF ~r.in_progress /\ r.state = "on"
                  THEN [s2 EXCEPT !.now = @ + 10]
                  ELSE [s2 EXCEPT !.now = @ + 5]

\* one turn of _wait_for_completion's loop, lines 301-355: the task wakes
\* from its sleep at time s.now and runs to the next sleep or to the return
WaitForCompletion(s, j, r) ==
  IF ~(s.now < DEFAULT_UPDATE_TIMEOUT)
  THEN WaiterReturn(s, j, FALSE,
         IF s.saw_in_progress
         THEN "Update timed out - device may still be updating"
         ELSE "Update timed out - no progress detected")
  ELSE IF s.cancelled THEN WaiterReturn(s, j, FALSE, "Cancelled by user")
  ELSE LET s1 == [s EXCEPT !.polls = @ + 1, !.calls.probe[j] = TRUE]
       IN IF r.fault THEN AfterJob(JobFault(LeaveWaiter(s1), j), j)
          ELSE IF r.state = "missing"
          THEN IF s1.unavailable_since = NotSet
               THEN [s1 EXCEPT !.unavailable_since = s1.now, !.now = @ + 10]
               ELSE IF s1.now - s1.unavailable_since > MAX_UNAVAILABLE_DURATION
               THEN WaiterReturn(s1, j, FALSE,
                      "Device disappeared and did not come back")
               ELSE [s1 EXCEPT !.now = @ + 10]
          ELSE IF r.state = "unavailable"
          THEN IF s1.unavailable_since = NotSet
               THEN [s1 EXCEPT !.unavailable_since = s1.now, !.now = @ + 10]
               ELSE IF s1.now - s1.unavailable_since > MAX_UNAVAILABLE_DURATION
               THEN WaiterReturn(s1, j, FALSE,
                      IF s1.saw_in_progress
                      THEN "Device went offline during update and did not recover"
                      ELSE "Device became unavailable")
               ELSE [s1 EXCEPT !.now = @ + 10]
          ELSE LET s2 == [s1 EXCEPT !.unavailable_since = NotSet,
                                    !.saw_in_progress = @ \/ r.in_progress]
               IN IF ~r.in_progress /\ r.state = "off"
                  THEN WaiterReturn(s2, j, TRUE, "")
                  ELSE IF ~r.in_progress /\ r.state = "on"
                  THEN [s2 EXCEPT !.now = @ + 10]
                  ELSE [s2 EXCEPT !.now = @ + 5]

\* ------------------------------------------------------------ entry points
\* the task of _run is suspended at an await
Awaits ==
  {"pre_info", "pre_stop", "pre_settle", "install", "waiter", "delay",
   "post_info", "post_start"}

\* variant of Start that queues the targets in the opposite order; C20
\* must tell it from the code
StartReversesOrder(entity_ids, slug) ==
  /\ pc # "begin"
  /\ ~running
  /\ Becomes(
       [Self EXCEPT
          !.queue = [i \in 1..Len(entity_ids) |->
                       DeviceUpdateResult(
                         entity_ids[Len(entity_ids) + 1 - i])],
          !.running = TRUE,
          !.cancelled = FALSE,
          !.current_index = 0,
          !.stop_addon_slug = slug,
          !.addon_was_running = FALSE,
          !.pc = "begin",
          !.must_cancel = FALSE,
          !.events = <<>>,
          !.calls = NoCalls(Len(entity_ids)),
          !.cancel_at = NeverCancelled,
          !.api = "started"])

\* UpdateQueue.start as ws_start_updates calls it, when no run is in
\* progress; hass.async_create_task starts the coroutine at once, so no
\* other command is served before the task reached its first await (Begin)
Start(entity_ids, slug) ==
  /\ pc # "begin"
  /\ ~running
  /\ Becomes(
       [Self EXCEPT
          !.queue = [i \in 1..Len(entity_ids) |->
                       DeviceUpdateResult(entity_ids[i])],
          !.running = TRUE,
          !.cancelled = FALSE,
          !.current_index = 0,
          !.stop_addon_slug = slug,
          !.addon_was_running = FALSE,
          !.pc = "begin",
          !.must_cancel = FALSE,
          !.events = <<>>,
          !.calls = NoCalls(Len(entity_ids)),
          !.cancel_at = NeverCancelled,
          !.api = "started"])

\* variant of StartRejected that resets the cancellation flag before it
\* notices the run in progress; C6 must tell it from the code
StartRejectedResetsFlag ==
  /\ pc # "begin"
  /\ running
  /\ Becomes([Self EXCEPT !.cancelled = FALSE, !.api = "already_running"])

\* UpdateQueue.start while a run is in progress: RuntimeError, which
\* ws_start_updates answers with the already_running error
StartRejected ==
  /\ pc # "begin"
  /\ running
  /\ Becomes([Self EXCEPT !.api = "already_running"])

\* UpdateQueue.cancel as ws_cancel_updates calls it
Cancel ==
  /\ pc # "begin"
  /\ Becomes(
       [Self EXCEPT
          !.cancelled = TRUE,
          !.must_cancel = @ \/ (pc \notin {"none", "done"}),
          !.cancel_at = IF running /\ cancel_at = NeverCancelled
                        THEN [pc |-> pc, index |-> current_index]
                        ELSE @,
          !.api = "cancelled"])

\* UpdateQueue.clear as ws_clear_results calls it, while idle
Clear ==
  /\ pc # "begin"
  /\ ~running
  /\ Becomes([Self EXCEPT !.queue = <<>>, !.api = "cleared"])

\* variant of ClearRejected that empties the results all the same; C7 must
\* tell it from the code
ClearRejectedEmpties ==
  /\ pc # "begin"
  /\ running
  /\ Becomes([Self EXCEPT !.queue = <<>>, !.api = "clear_failed"])

\* UpdateQueue.clear while a run is in progress: RuntimeError, which
\* ws_clear_results answers with the clear_failed error
ClearRejected ==
  /\ pc # "begin"
  /\ running
  /\ Becomes([Self EXCEPT !.api = "clear_failed"])

\* variant of Begin that enters the loop at the last job of the queue; C24
\* must tell it from the code
BeginFromLastJob(r) ==
  /\ pc = "begin"
  /\ Becomes(
       IF stop_addon_slug = NoSlug
       THEN RunLoop(Self, IF queue = <<>> THEN 1 ELSE Len(queue), r)
       ELSE [Self EXCEPT !.pc = "pre_info", !.calls.info = @ + 1])

\* ------------------------------------------------------- the task's steps
\* _run from its start: _stop_addon up to its first await (line 111), or,
\* without a slug, on into the loop
Begin(r) ==
  /\ pc = "begin"
  /\ Becomes(
       IF stop_addon_slug = NoSlug
       THEN RunLoop(Self, 1, r)
       ELSE [Self EXCEPT !.pc = "pre_info", !.calls.info = @ + 1])

\* _stop_addon, lines 111-116: the add-on's info came back
StopAddonInfo(state, r) ==
  /\ pc = "pre_info"
  /\ ~must_cancel
  /\ Becomes(
       IF state = "started"
       THEN [Self EXCEPT !.addon_was_running = TRUE,
                         !.calls.reported_started = TRUE,
                         !.calls.stop = @ + 1,
                         !.pc = "pre_stop"]
       ELSE RunLoop(Self, 1, r))

\* variant of StopAddonDone that keeps the add-on memory set after a failed
\* stop; C5 must tell it from the code
StopAddonDoneKeepsMemory(success, r) ==
  /\ pc = "pre_stop"
  /\ ~must_cancel
  /\ Becomes(
       IF success
       THEN [Self EXCEPT !.calls.stop_result = "ok", !.pc = "pre_settle"]
       ELSE RunLoop([Self EXCEPT !.calls.stop_result = "failed"], 1, r))

\* _stop_addon, lines 116-123: the stop request came back
StopAddonDone(success, r) ==
  /\ pc = "pre_stop"
  /\ ~must_cancel
  /\ Becomes(
       IF success
       THEN [Self EXCEPT !.calls.stop_result = "ok", !.pc = "pre_settle"]
       ELSE RunLoop([Self EXCEPT !.calls.stop_result = "failed",
                                 !.addon_was_running = FALSE], 1, r))

\* _stop_addon's sleep(5) is over: on into the loop
StopAddonSettled(r) ==
  /\ pc = "pre_settle"
  /\ ~must_cancel
  /\ Becomes(RunLoop(Self, 1, r))

\* the update.install service call came back
InstallDone(outcome, r) ==
  /\ pc = "install"
  /\ ~must_cancel
  /\ Becomes(InstallReturn(Self, current_index + 1, outcome, r))

\* the waiter wakes from its sleep, late seconds after the time it asked
\* for, and takes the reading r; a waiter is followed for MaxPolls turns
\* that go back to sleep, after which only a turn that ends it is taken
WaiterPoll(r, late) ==
  /\ pc = "waiter"
  /\ ~must_cancel
  /\ LET n == WaitForCompletion([Self EXCEPT !.now = @ + late],
                                current_index + 1, r)
     IN /\ polls < MaxPolls \/ n.pc # "waiter"
        /\ Becomes(n)

\* the inter-job delay ran out: wait_for raised TimeoutError, line 167
DelayDone(r) ==
  /\ pc = "delay"
  /\ ~must_cancel
  /\ Becomes(RunLoop(Self, current_index + 2, r))

\* _restart_addon, lines 132-136: the add-on's info came back
RestartAddonInfo ==
  /\ pc = "post_info"
  /\ ~must_cancel
  /\ Becomes([Self EXCEPT !.calls.start = @ + 1, !.pc = "post_start"])

\* _restart_addon, lines 136-140, and the rest of _run's finally block
RestartAddonDone(success) ==
  /\ pc = "post_start"
  /\ ~must_cancel
  /\ Becomes(FinishRun(Self))

\* Task.cancel() takes effect: the await the task is suspended at raises
\* CancelledError.  Inside _update_single its handler marks the job; inside
\* _run's try block the handler of line 170 and the finally block run;
\* inside the finally block nothing catches it and the task ends
CancelledError(s) ==
  LET s0 == [s EXCEPT !.must_cancel = FALSE]
  IN IF s0.pc \in {"install", "waiter"}
     THEN RunFinally(
            CancelledHandler(
              JobCancelled(LeaveWaiter(s0), s0.current_index + 1)))
     ELSE IF s0.pc \in {"post_info", "post_start"}
     THEN [s0 EXCEPT !.pc = "done"]
     ELSE RunFinally(CancelledHandler(s0))

Interrupt ==
  /\ must_cancel
  /\ pc \in Awaits
  /\ Becomes(CancelledError(Self))

\* ----------------------------------------------------------- specification
Init ==
  /\ queue = <<>>
  /\ running = FALSE
  /\ cancelled = FALSE
  /\ current_index = 0
  /\ stop_addon_slug = NoSlug
  /\ addon_was_running = FALSE
  /\ pc = "none"
  /\ must_cancel = FALSE
  /\ now = 0
  /\ unavailable_since = NotSet
  /\ saw_in_progress = FALSE
  /\ polls = 0
  /\ events = <<>>
  /\ calls = NoCalls(0)
  /\ cancel_at = NeverCancelled
  /\ api = "none"

TaskNext ==
  \/ \E r \in Readings : Begin(r)
  \/ \E state \in AddonStates, r \in Readings : StopAddonInfo(state, r)
  \/ \E success \in BOOLEAN, r \in Readings : StopAddonDone(success, r)
  \/ \E r \in Readings : StopAddonSettled(r)
  \/ \E outcome \in InstallOutcomes, r \in Readings : InstallDone(outcome, r)
  \/ \E r \in Readings, late \in Lateness : WaiterPoll(r, late)
  \/ \E r \in Readings : DelayDone(r)
  \/ RestartAddonInfo
  \/ \E success \in BOOLEAN : RestartAddonDone(success)
  \/ Interrupt

ApiNext ==
  \/ \E entity_ids \in Batches, slug \in Slugs : Start(entity_ids, slug)
  \/ StartRejected
  \/ Cancel
  \/ Clear
  \/ ClearRejected

Next == TaskNext \/ ApiNext

Spec == Init /\ [][Next]_vars

\* ------------------------------------------------------ reading the claims
Terminal(i) == queue[i].status \in TerminalStatuses

\* a run's task is over
TaskDone == pc = "done"

\* the results the run left are still there (no clear() since)
ResultsKept == Len(queue) = Len(calls.trigger)

\* the run's first cancel() has not reached the task yet: the task is
\* still suspended where it was
CancelPending == must_cancel /\ pc = cancel_at.pc

\* the job that was being processed at the run's first cancel()
CancelledJob == cancel_at.index + 1

\* the step is a start() that was accepted / a clear() that was accepted
StartStep == pc' = "begin"
ClearStep == api' = "cleared" /\ pc' = pc /\ cancelled' = cancelled

\* ------------------------------------------------------------------- C1
\* C1: whenever the task of a run has exited, also after a cancel() at any
\* moment of the run, the run is Idle (running = FALSE) and the last event
\* it published is the finished event.
C1_ExitedIdleAndFinished ==
  TaskDone =>
    /\ ~running
    /\ events # <<>>
    /\ events[Len(events)].topic = "finished"

\* ------------------------------------------------------------------- C2
\* C2: in every reachable state at most one job of the queue has status
\* Running.
C2_AtMostOneRunning ==
  Cardinality({i \in 1..Len(queue) : queue[i].status = STATUS_RUNNING}) <= 1

C2_Witness ==
  /\ Len(queue) = 2
  /\ queue[1].status = STATUS_FAILED
  /\ queue[2].status = STATUS_RUNNING
  /\ pc = "waiter"

\* ------------------------------------------------------------------- C3
\* C3: in a step that neither replaces the queue (start) nor empties it
\* (clear) the queue keeps its jobs and every job's status stays as it is
\* or moves forward: Queued to Running, Queued to Cancelled, Running to a
\* terminal status; a terminal status never changes; under every
\* interleaving of cancel() with the run.
Moves(old, new) ==
  \/ new.status = old.status
  \/ old.status = STATUS_QUEUED /\ new.status = STATUS_RUNNING
  \/ old.status = STATUS_QUEUED /\ new.status = STATUS_CANCELLED
  \/ old.status = STATUS_RUNNING /\ new.status \in TerminalStatuses
  \* Queued, Running and the outcome within one step of the task, which
  \* runs without interruption from one await to the next
  \/ /\ old.status = STATUS_QUEUED
     /\ new.status \in {STATUS_SKIPPED, STATUS_FAILED}
     /\ new.started_at

C3_StatusMovesForward ==
  [][~StartStep /\ ~ClearStep =>
       /\ Len(queue') = Len(queue)
       /\ \A i \in 1..Len(queue) :
            /\ queue'[i].entity_id = queue[i].entity_id
            /\ Moves(queue[i], queue'[i])]_vars

C3_Witness ==
  /\ TaskDone
  /\ cancel_at.pc = "waiter"
  /\ Len(queue) = 2
  /\ queue[1].status = STATUS_SUCCESS
  /\ queue[2].status = STATUS_CANCELLED

\* ------------------------------------------------------------------- C4
\* C4: when the task of a run has exited and the run's stop request had
\* succeeded, the start request was invoked exactly once in that run.
C4_StartOnceAfterStop ==
  TaskDone /\ calls.stop_result = "ok" => calls.start = 1

\* ------------------------------------------------------------------- C5
\* C5: in one run the stop request is invoked at most once, and only after
\* the state query reported the add-on started; after a stop request that
\* reported failure the start request is never invoked in that run.
C5_StopOnceNoStartAfterFailure ==
  /\ calls.stop <= 1
  /\ calls.stop > 0 => calls.reported_started
  /\ calls.stop_result = "failed" => calls.start = 0 /\ pc # "post_info"

C5_Witness ==
  /\ TaskDone
  /\ ~running
  /\ calls.stop = 1
  /\ calls.stop_result = "failed"
  /\ Len(queue) = 2
  /\ \A i \in 1..2 : Terminal(i)

\* ------------------------------------------------------------------- C6
\* C6: no step launches a run task while a run is in progress, and a step
\* that answers a start() with already_running is taken while running and
\* leaves the job sequence with every job's status, the running flag, the
\* cancellation flag, the add-on id, the add-on memory and the task as they
\* were.
C6_StartWhileRunningRejected ==
  [][/\ running => ~StartStep
     /\ api' = "already_running" /\ api # "already_running" =>
          /\ running
          /\ UNCHANGED <<queue, running, cancelled, current_index,
                         stop_addon_slug, addon_was_running, pc,
                         must_cancel>>]_vars

C6_Witness ==
  /\ api = "already_running"
  /\ running
  /\ pc = "waiter"
  /\ Len(queue) = 2
  /\ queue[1].status = STATUS_SKIPPED

\* ------------------------------------------------------------------- C7
\* C7: a step that answers a clear() with clear_failed is taken while
\* running and leaves the job sequence unchanged; a step that answers a
\* clear() with cleared is taken while Idle, empties the job sequence and
\* leaves the run Idle.
C7_ClearLockedWhileRunning ==
  [][/\ api' = "clear_failed" /\ api # "clear_failed" =>
          running /\ running' /\ queue' = queue
     /\ api' = "cleared" /\ api # "cleared" =>
          ~running /\ ~running' /\ queue' = <<>>]_vars

C7_Witness ==
  /\ api = "clear_failed"
  /\ running
  /\ Len(queue) = 2
  /\ queue[1].status = STATUS_SUCCESS
  /\ queue[2].status = STATUS_RUNNING

\* ------------------------------------------------------------------- C8
\* C8: once a cancel() issued while a job was Running (the task inside the
\* install call or inside the completion waiter) has reached the task, that
\* job is Cancelled with error "Cancelled by user" and a finish timestamp;
\* until then it is still Running.
C8_RunningJobEndsCancelled ==
  cancel_at.pc \in {"install", "waiter"} /\ ResultsKept =>
    LET job == queue[CancelledJob]
    IN IF CancelPending
       THEN job.status = STATUS_RUNNING
       ELSE /\ job.status = STATUS_CANCELLED
            /\ job.error = <<"Cancelled by user">>
            /\ job.finished_at

C8_Witness ==
  /\ cancel_at.pc = "waiter"
  /\ polls = 0
  /\ TaskDone
  /\ ResultsKept
  /\ queue[CancelledJob].status = STATUS_CANCELLED

\* ------------------------------------------------------------------- C9
\* C9: once a cancel() issued during the inter-job delay has reached the
\* task, every job after the one just processed is Cancelled, and neither
\* the probe nor the install trigger was invoked for any of them.
C9_CancelInDelayCancelsRest ==
  cancel_at.pc = "delay" /\ ResultsKept =>
    \A j \in (CancelledJob + 1)..Len(queue) :
      /\ ~calls.probe[j]
      /\ calls.trigger[j] = 0
      /\ queue[j].status =
           IF CancelPending THEN STATUS_QUEUED ELSE STATUS_CANCELLED

C9_Witness ==
  /\ cancel_at.pc = "delay"
  /\ TaskDone
  /\ Len(queue) = 2
  /\ queue[1].status = STATUS_SUCCESS
  /\ queue[2].status = STATUS_CANCELLED

JobStartStep(r) ==
  \/ Begin(r)
  \/ \E state \in AddonStates : StopAddonInfo(state, r)
  \/ \E success \in BOOLEAN : StopAddonDone(success, r)
  \/ StopAddonSettled(r)
  \/ DelayDone(r)

\* the target is missing or unavailable
Unreachable(r) == ~r.fault /\ r.state \in {"missing", "unavailable"}

\* C11: a job started with a first reading that is missing or unavailable
\* is Skipped with a finish timestamp at the end of that step, and the
\* install trigger has not been invoked for any Skipped job.
C11_UnreachableIsSkipped ==
  [][/\ \A j \in 1..Len(queue) :
          /\ queue[j].status = STATUS_QUEUED
          /\ Len(queue') = Len(queue)
          /\ queue'[j].started_at
          /\ \E r \in Readings : Unreachable(r) /\ JobStartStep(r)
          => /\ queue'[j].status = STATUS_SKIPPED
             /\ queue'[j].finished_at
             /\ calls'.trigger[j] = 0
     /\ \A j \in 1..Len(queue') :
          queue'[j].status = STATUS_SKIPPED /\ Len(calls'.trigger) = Len(queue')
          => calls'.trigger[j] = 0]_vars

C11_Witness ==
  /\ pc = "waiter"
  /\ Len(queue) = 2
  /\ queue[1].status = STATUS_SKIPPED
  /\ queue[1].finished_at
  /\ calls.trigger = <<0, 1>>

\* ------------------------------------------------------------------ C12
\* the job that the task is running
CurrentJob == current_index + 1

\* C12: a step in which the install trigger call returns with an error makes
\* the running job Failed with a finish timestamp and an error text that
\* embeds the message of the error, does not enter the completion waiter
\* and does not read the probe for the job; no Failed job with such an error
\* text has had a poll of the waiter.
C12_TriggerFailureFailsJob ==
  [][pc = "install" /\ Len(queue') = Len(queue)
     => \A outcome \in InstallErrors :
          \/ /\ queue'[CurrentJob].status = STATUS_FAILED
             /\ queue'[CurrentJob].finished_at
             /\ Len(queue'[CurrentJob].error) = 2
             /\ queue'[CurrentJob].error[2] = outcome
             /\ queue'[CurrentJob].error[1] =
                  IF HasCompileMarker(outcome) THEN "Compile failed - "
                                               ELSE "Install failed - "
             /\ pc' # "waiter"
             /\ calls'.probe[CurrentJob] = calls.probe[CurrentJob]
             /\ polls' = polls
          \/ \A r \in Readings : ~InstallDone(outcome, r)]_vars

C12_Witness ==
  /\ TaskDone
  /\ ResultsKept
  /\ Len(queue) = 2
  /\ queue[2].status = STATUS_FAILED
  /\ Len(queue[2].error) = 2
  /\ queue[2].error[2] \in InstallErrors
  /\ calls.trigger[2] = 1

\* ------------------------------------------------------------------ C13
\* the reading says that no update is pending and none is in progress
SettledOff(r) == ~r.fault /\ r.state = "off" /\ ~r.in_progress

\* C13: when the install trigger call is accepted and the reading taken
\* right after it is settled-off, the job is Success at the end of that step
\* with no poll and no delay of the completion waiter; and the job is
\* Success at the end of that step only when that reading is settled-off.
C13_FastPathOnlyWhenSettledOff ==
  [][\A r \in Readings :
        InstallDone(InstallOk, r)
        => /\ SettledOff(r)
              => /\ queue'[CurrentJob].status = STATUS_SUCCESS
                 /\ queue'[CurrentJob].finished_at
                 /\ pc' # "waiter"
                 /\ polls' = polls
           /\ queue'[CurrentJob].status = STATUS_SUCCESS
              => SettledOff(r)]_vars

\* ------------------------------------------------------------------
\* The completion waiter followed to its end.  WaiterPoll lets the waiter
\* go round MaxPolls times and counts the turns in polls; WaiterTurn is the
\* same step with no such limit and no count, and SpecWaiter runs batches
\* of one job with no add-on, so that the waiter's loop is followed for as
\* many polls as DEFAULT_UPDATE_TIMEOUT leaves it.
WaiterTurn(r, late) ==
  /\ pc = "waiter"
  /\ ~must_cancel
  /\ Becomes([WaitForCompletion([Self EXCEPT !.now = @ + late],
                                current_index + 1, r) EXCEPT !.polls = 0])

NextWaiter ==
  \/ Start(<<"update.a">>, NoSlug)
  \/ \E r \in Readings : Begin(r)
  \/ \E outcome \in InstallOutcomes, r \in Readings : InstallDone(outcome, r)
  \/ \E r \in Readings, late \in Lateness : WaiterTurn(r, late)
  \/ Cancel
  \/ Interrupt

SpecWaiter == Init /\ [][NextWaiter]_vars

\* ------------------------------------------------------------------ C14
\* the poll of the waiter that reads r after waking late fails the job
\* although the deadline has not passed: the target has been missing or
\* unavailable for longer than MAX_UNAVAILABLE_DURATION
GraceWindowFailure(r, late) ==
  /\ WaiterTurn(r, late)
  /\ Unreachable(r)
  /\ now + late < DEFAULT_UPDATE_TIMEOUT
  /\ queue'[CurrentJob].status = STATUS_FAILED

\* the reason the waiter is said to give for it
GraceWindowReason(r) ==
  IF saw_in_progress
  THEN "Device went offline during update and did not recover"
  ELSE IF r.state = "unavailable"
  THEN "Device became unavailable"
  ELSE "Device disappeared and did not come back"

\* C14: when the waiter fails the job because the target stayed missing or
\* unavailable for longer than the grace window, the job's error is "went
\* offline during update and did not recover" if an in-progress reading was
\* seen earlier in that waiter, and otherwise "became unavailable" for an
\* unavailable target and "disappeared and did not come back" for a missing
\* one.
C14_GraceWindowReasons ==
  [][\A r \in Readings, late \in Lateness :
        GraceWindowFailure(r, late)
        => queue'[CurrentJob].error = <<GraceWindowReason(r)>>]_vars

\* ------------------------------------------------------------------ C15
\* C15: a poll of the waiter made before the deadline with no cancellation
\* requested, whose reading is settled-off and not in progress, makes the
\* job Success and ends the waiter; and a poll of the waiter that makes the
\* job Success has such a reading and is made before the deadline.
C15_SuccessExactlyOnSettledOff ==
  [][/\ \A late \in Lateness :
          pc = "waiter" /\ now + late < DEFAULT_UPDATE_TIMEOUT
          => \A r \in {x \in Readings : SettledOff(x)} :
               WaiterTurn(r, late)
               => /\ queue'[CurrentJob].status = STATUS_SUCCESS
                  /\ queue'[CurrentJob].finished_at
                  /\ pc' # "waiter"
     /\ pc = "waiter" /\ queue'[CurrentJob].status = STATUS_SUCCESS
        => \A r \in Readings, late \in Lateness :
             WaiterTurn(r, late)
             => SettledOff(r) /\ now + late < DEFAULT_UPDATE_TIMEOUT]_vars

\* the waiter has gone past readings that were not settled-off: one with
\* state "off" still in progress is among them only if saw_in_progress
C15_Witness ==
  /\ pc = "waiter"
  /\ now > 5
  /\ saw_in_progress
  /\ now < DEFAULT_UPDATE_TIMEOUT

\* ------------------------------------------------------------------ C16
\* the reason the waiter gives when the deadline has passed
TimeoutReason ==
  IF saw_in_progress
  THEN "Update timed out - device may still be updating"
  ELSE "Update timed out - no progress detected"

TimeoutReasons ==
  {<<"Update timed out - device may still be updating">>,
   <<"Update timed out - no progress detected">>}

\* C16: a turn of the waiter that begins at or after the deadline makes the
\* job Failed with the "may still be updating" reason if an in-progress
\* reading was seen in that waiter and the "no progress detected" reason
\* otherwise, ends the waiter, and reads no probe (the step is the same
\* whatever the probe would answer, a raised fault included), so that the
\* waiter goes on polling only from a turn that begins before the deadline;
\* and it gives a timeout reason only from a turn that begins at or after
\* the deadline.
C16_TimeoutAtDeadline ==
  [][/\ \A late \in Lateness :
          pc = "waiter" /\ ~(now + late < DEFAULT_UPDATE_TIMEOUT)
          => \A r \in Readings :
               WaiterTurn(r, late)
               => /\ queue'[CurrentJob].status = STATUS_FAILED
                  /\ queue'[CurrentJob].error = <<TimeoutReason>>
                  /\ queue'[CurrentJob].finished_at
                  /\ pc' # "waiter"
                  /\ WaiterTurn(ProbeFault, late)
     /\ pc = "waiter" /\ queue'[CurrentJob].error \in TimeoutReasons
        => \A r \in Readings, late \in Lateness :
             WaiterTurn(r, late)
             => ~(now + late < DEFAULT_UPDATE_TIMEOUT)]_vars

\* the run is over and its job has timed out after progress was seen
C16_Witness ==
  /\ TaskDone
  /\ Len(queue) = 1
  /\ queue[1].status = STATUS_FAILED
  /\ queue[1].error = <<"Update timed out - device may still be updating">>

\* ------------------------------------------------------------------ C17
\* the progress events published since the last start()
ProgressEvents == {i \in 1..Len(events) : events[i].topic = "progress"}

\* the jobs of the run that have reached a terminal status
TerminalJobs == {j \in 1..Len(queue) : Terminal(j)}

\* C17: as long as the results of a run are kept, the number of progress
\* events published in the run equals the number of its jobs that have
\* reached a terminal status, the jobs cancelled while running or before
\* they ran included.
C17_ProgressEventPerTerminalJob ==
  ResultsKept => Cardinality(ProgressEvents) = Cardinality(TerminalJobs)

\* ------------------------------------------------------------------ C18
\* C18: in every reachable state the cancellation-requested flag is set
\* only if the run is Running.
C18_CancelFlagOnlyWhileRunning == cancelled => running

\* ------------------------------------------------------------------ C19
\* the first cancel() of the run came before the cleanup section of _run
CancelledBeforeCleanup ==
  cancel_at.pc \notin {"never", "post_info", "post_start"}

\* C19: a run whose first cancel() came before its cleanup section ends as
\* a run cancelled once at that point ends, whatever cancel() calls follow
\* the first: Idle, with the finished event published last, and with the
\* add-on start request invoked once if the stop request had succeeded.
C19_LaterCancelsChangeNothing ==
  TaskDone /\ CancelledBeforeCleanup
  => /\ ~running
     /\ events # <<>>
     /\ events[Len(events)].topic = "finished"
     /\ calls.stop_result = "ok" => calls.start = 1

\* ------------------------------------------------------------------ C20
\* the target ids of the jobs, in the order of the list (results keeps both)
EntityIds(q) == [i \in 1..Len(q) |-> q[i].entity_id]

\* the result list of fresh jobs for the given ids: every one Queued, with
\* no timestamp and no error
FreshResults(entity_ids) ==
  [i \in 1..Len(entity_ids) |->
    [entity_id |-> entity_ids[i], status |-> STATUS_QUEUED,
     started_at |-> FALSE, finished_at |-> FALSE, error |-> NoError]]

\* C20: a start(ids) that is accepted leaves a result list with one job per
\* given id, in the given order, every one of them Queued; and every step
\* that is neither an accepted start() nor an accepted clear() keeps the
\* ids of the result list and their order.
C20_ResultListKeepsGivenOrder ==
  [][/\ StartStep
        => \A entity_ids \in Batches :
             \/ Results(queue') = FreshResults(entity_ids)
             \/ ~Start(entity_ids, stop_addon_slug')
     /\ ~StartStep /\ ~ClearStep => EntityIds(queue') = EntityIds(queue)]_vars

C20_Witness ==
  /\ TaskDone
  /\ EntityIds(queue) = <<"update.b", "update.a">>
  /\ \A i \in 1..Len(queue) : Terminal(i)

\* ------------------------------------------------------------------ C21
\* the sum of the counts of a summary
RECURSIVE SumOfCounts(_, _)
SumOfCounts(counts, keys) ==
  IF keys = {} THEN 0
  ELSE LET k == CHOOSE x \in keys : TRUE
       IN counts[k] + SumOfCounts(counts, keys \ {k})

\* the summary counts the jobs of the result list: the counts sum to its
\* length, every count is the number of jobs with that status, and a
\* status that is not a key has no job
SummaryCounts(summary, results) ==
  /\ SumOfCounts(summary, DOMAIN summary) = Len(results)
  /\ \A st \in DOMAIN summary :
       summary[st] =
         Cardinality({i \in 1..Len(results) : results[i].status = st})
  /\ \A i \in 1..Len(results) : results[i].status \in DOMAIN summary

\* C21: in every reachable state the summary of the object counts the jobs
\* of its result list, and so does the summary of every progress and
\* finished event published so far for the results the event carries.
C21_SummaryCountsJobs ==
  /\ SummaryCounts(Summary(queue), Results(queue))
  /\ \A e \in 1..Len(events) :
       SummaryCounts(events[e].summary, events[e].results)

C21_Witness ==
  /\ TaskDone
  /\ Len(events) = 3
  /\ events[3].topic = "finished"
  /\ DOMAIN events[3].summary = {STATUS_SUCCESS, STATUS_FAILED}
  /\ DOMAIN events[1].summary = {STATUS_SUCCESS, STATUS_QUEUED}

\* ------------------------------------------------------------------ C22
\* the job whose processing the next step of the task belongs to
JobInHand ==
  IF pc \in {"install", "waiter"} THEN CurrentJob
  ELSE IF pc = "delay" THEN current_index + 2
  ELSE 1

\* the step is one in which hass.states.get raises inside _update_single:
\* at the start of a job, right after the install call, or in a poll of the
\* waiter made before the deadline
FaultStep ==
  \/ JobStartStep(ProbeFault)
  \/ InstallDone(InstallOk, ProbeFault)
  \/ \E late \in Lateness :
       now + late < DEFAULT_UPDATE_TIMEOUT /\ WaiterPoll(ProbeFault, late)

\* C22: a step in which a fault is raised inside the processing of a job
\* leaves that job Failed with the message of the fault and a finish
\* timestamp, publishes the progress event of the job, and leaves the run
\* going: if a job follows, the task waits in the delay before it with the
\* run still Running and that job still Queued, and if none follows the
\* task is in its cleanup section or has finished the run normally.
C22_FaultCaughtAtJobBoundary ==
  [][(/\ pc \in Awaits \cup {"begin"}
      /\ ~must_cancel
      /\ JobInHand <= Len(queue)
      /\ Len(queue') = Len(queue)
      /\ queue'[JobInHand].started_at
      /\ FaultStep)
     => /\ queue'[JobInHand].status = STATUS_FAILED
        /\ queue'[JobInHand].error = <<FaultMessage>>
        /\ queue'[JobInHand].started_at
        /\ queue'[JobInHand].finished_at
        /\ Len(events') > Len(events)
        /\ events'[Len(events) + 1].topic = "progress"
        /\ events'[Len(events) + 1].results[JobInHand].status = STATUS_FAILED
        /\ IF JobInHand < Len(queue)
           THEN /\ pc' = "delay"
                /\ running'
                /\ current_index' = JobInHand - 1
                /\ queue'[JobInHand + 1].status = STATUS_QUEUED
           ELSE \/ pc' = "post_info" /\ running'
                \/ (/\ pc' = "done"
                    /\ ~running'
                    /\ events'[Len(events')].topic = "finished")]_vars

\* a run has ended in which the first job met a fault and the second was
\* run all the same
C22_Witness ==
  /\ TaskDone
  /\ ~running
  /\ Len(queue) = 2
  /\ queue[1].status = STATUS_FAILED
  /\ queue[1].error = <<FaultMessage>>
  /\ queue[2].status = STATUS_SUCCESS

\* ------------------------------------------------------------------ C23
\* the reasons the waiter gives when it takes the device for lost
DeviceLostReasons ==
  {<<"Device became unavailable">>,
   <<"Device disappeared and did not come back">>,
   <<"Device went offline during update and did not recover">>}

\* the step makes the job in hand fail with one of these reasons
DeviceLost ==
  /\ queue'[CurrentJob].status = STATUS_FAILED
  /\ queue'[CurrentJob].error \in DeviceLostReasons

\* C23: in every turn of the waiter made before the deadline, a reading
\* that is neither missing nor unavailable clears the unavailable-since
\* marker if the waiter goes on, and never ends in a device-lost failure;
\* a missing or unavailable reading sets the marker to the time of that
\* reading if it was clear and keeps it if it was set; and the waiter gives
\* a device-lost failure only for a missing or unavailable reading taken
\* with the marker set more than MAX_UNAVAILABLE_DURATION seconds before,
\* which is so whenever such a reading is taken that late.  The marker is
\* therefore the time of the first reading of the outage that is going on.
C23_GraceWindowIsContinuous ==
  [][pc = "waiter" /\ Len(queue') = Len(queue)
     => \A r \in Readings, late \in Lateness :
          (now + late < DEFAULT_UPDATE_TIMEOUT /\ ~r.fault
           /\ WaiterTurn(r, late))
          => IF Unreachable(r)
             THEN IF unavailable_since = NotSet
                  THEN /\ pc' = "waiter"
                       /\ unavailable_since' = now + late
                  ELSE IF now + late - unavailable_since
                            > MAX_UNAVAILABLE_DURATION
                  THEN DeviceLost
                  ELSE /\ pc' = "waiter"
                       /\ unavailable_since' = unavailable_since
             ELSE /\ ~DeviceLost
                  /\ pc' = "waiter" => unavailable_since' = NotSet]_vars

\* after an in-progress reading an outage has begun, measured from its own
\* first reading
C23_Witness ==
  /\ pc = "waiter"
  /\ saw_in_progress
  /\ unavailable_since # NotSet
  /\ unavailable_since > 5
  /\ now - unavailable_since > MAX_UNAVAILABLE_DURATION

\* ------------------------------------------------------------------ C24
\* the probe or the install trigger has been invoked for job j in this run
Touched(j) == calls.probe[j] \/ calls.trigger[j] > 0

\* C24: in every reachable state, if a job is Running then every job before
\* it has a terminal status and every job after it is Queued; and as long
\* as the results of the run are kept, a job for which the probe or the
\* install trigger has been invoked has only jobs with a terminal status
\* before it.
C24_JobsInQueueOrder ==
  /\ \A j \in 1..Len(queue) :
       queue[j].status = STATUS_RUNNING
       => /\ \A i \in 1..(j - 1) : Terminal(i)
          /\ \A i \in (j + 1)..Len(queue) : queue[i].status = STATUS_QUEUED
  /\ ResultsKept
     => \A j \in 1..Len(queue) :
          Touched(j) => \A i \in 1..(j - 1) : Terminal(i)

\* the second job is Running after the first has ended
C24_Witness ==
  /\ Len(queue) = 2
  /\ Terminal(1)
  /\ queue[2].status = STATUS_RUNNING
  /\ calls.trigger = <<1, 1>>

\* ------------------------------------------------------------------
\* A fault that escapes the loop.  _supervisor_api catches what the HTTP
\* call raises, but its callers use what it returns with no check of the
\* type: when the Supervisor's answer is JSON that is not an object, or its
\* "data" is not one, result.get / info.get raise AttributeError outside
\* any try of the pre-hook.  _run has no `except Exception`, so the fault
\* leaves the try body, skips the CancelledError handler and runs the
\* finally block.  SpecFault is Spec with such answers.
EscapingFault(s) == RunFinally(s)

StopAddonFault ==
  /\ pc \in {"pre_info", "pre_stop"}
  /\ ~must_cancel
  /\ Becomes(EscapingFault(Self))

NextFault == Next \/ StopAddonFault

SpecFault == Init /\ [][NextFault]_vars

\* ------------------------------------------------------------------ C25
\* C25: whenever the run is Idle no job is Queued or Running, and the
\* results carried by every finished event have only jobs that are
\* Success, Failed, Skipped or Cancelled, also when the run was ended by a
\* fault that escaped the loop.
C25_FinishedRunHasNoOpenJob ==
  /\ ~running => \A j \in 1..Len(queue) : Terminal(j)
  /\ \A e \in 1..Len(events) :
       events[e].topic = "finished"
       => \A i \in 1..Len(events[e].results) :
            events[e].results[i].status \in TerminalStatuses

\* ------------------------------------------------------------------ C26
\* C26: the start request has been invoked in a run only if an add-on id
\* was given to start(), the state query of the run reported the add-on
\* started, and the stop request of the run had returned success.
C26_StartOnlyAfterSuccessfulStop ==
  calls.start > 0
  => /\ stop_addon_slug # NoSlug
     /\ calls.reported_started
     /\ calls.stop_result = "ok"

====
